---- MODULE Spec2Model ----
(***************************************************************************)
(* Model of the misconception / difficulty analysis backend:               *)
(*   src/models/text.py      clean_text, cosine_sim, get_encoder           *)
(*   src/models/analyzer.py  MisconceptionAnalyzer                         *)
(*   src/backend/app.py      startup, /health and the three POST handlers  *)
(*                                                                         *)
(* Numbers.  Every float of the program is kept as an integer in a fixed   *)
(* decimal unit, so that Python's round(x, n) is a real operation here:    *)
(*   E5  1e-5  raw dot product of two embeddings                           *)
(*   E4  1e-4  similarity (round(.., 4)), raw confidence and raw risk      *)
(*   E3  1e-3  everything that went through round(.., 3)                   *)
(*   E6  1e-6  the blend 0.65*sim + 0.35*(1 - mis_risk) before rounding    *)
(* round() is Python 3's: to nearest, ties to even.                        *)
(*                                                                         *)
(* Text.  A str is a sequence of one-character strings, so that strip,     *)
(* lower, "in", endswith and concatenation are computed, not assumed.      *)
(* The character U+03B5 (Greek small epsilon) is written "U+03B5".         *)
(*                                                                         *)
(* The sentence encoder and the classifier are opaque artifacts: what they *)
(* return for a text (a dot product, a class and its probability, or an    *)
(* exception) is an input of the call, drawn from a small set.             *)
(***************************************************************************)
EXTENDS Integers, Sequences, FiniteSets, TLC

VARIABLES
    pc,         \* position of the module-level startup code of app.py
    artifacts,  \* what ARTIFACT_DIR holds on disk (never written by the program)
    ENCODER,    \* text.py: the module global _ENCODER
    encoder,    \* MisconceptionAnalyzer.encoder
    clf,        \* MisconceptionAnalyzer.clf
    loaded,     \* MisconceptionAnalyzer.loaded
    label_ref,  \* MisconceptionAnalyzer.label_ref
    n_items,    \* DifficultyEstimator.n_items
    reqs,       \* the requests in flight: handler, position, locals, response
    ret         \* the call and the result of the last direct call of a function

vars == <<pc, artifacts, ENCODER, encoder, clf, loaded, label_ref, n_items, reqs, ret>>

None == "None"

\* Optional[int]: None is the empty tuple, n is <<n>>
NoQid == <<>>

Qid(n) == <<n>>

----------------------------------------------------------------------------
(* Arithmetic *)

Max(a, b) == IF a >= b THEN a ELSE b

Min(a, b) == IF a <= b THEN a ELSE b

\* round(x, n) where x is held in a unit d times finer than 10^-n:
\* to nearest, ties to even (\div is floor division, % is non-negative).
PyRound(x, d) ==
    LET q == x \div d
        r == x % d
    IN  IF 2 * r < d THEN q
        ELSE IF 2 * r > d THEN q + 1
        ELSE IF q % 2 = 0 THEN q ELSE q + 1

----------------------------------------------------------------------------
(* Text: src/models/text.py and the str methods the program calls *)

Space == " "

IsSpace(c) == c = Space

UpperToLower ==
    [c \in {"A", "B", "C", "D", "E", "F", "N"} |->
        CASE c = "A" -> "a" [] c = "B" -> "b" [] c = "C" -> "c" [] c = "D" -> "d"
          [] c = "E" -> "e" [] c = "F" -> "f" [] c = "N" -> "n"]

\* str.lower()
Lower(s) ==
    [i \in 1..Len(s) |-> IF s[i] \in DOMAIN UpperToLower THEN UpperToLower[s[i]] ELSE s[i]]

\* sub in s
Contains(sub, s) ==
    \E i \in 0..(Len(s) - Len(sub)) : SubSeq(s, i + 1, i + Len(sub)) = sub

\* s.endswith(suf)
EndsWith(s, suf) ==
    /\ Len(s) >= Len(suf)
    /\ SubSeq(s, Len(s) - Len(suf) + 1, Len(s)) = suf

\* str.strip()
Strip(t) ==
    LET idx == {i \in 1..Len(t) : ~IsSpace(t[i])}
    IN  IF idx = {} THEN <<>>
        ELSE LET lo == CHOOSE i \in idx : \A j \in idx : i <= j
                 hi == CHOOSE i \in idx : \A j \in idx : i >= j
             IN  SubSeq(t, lo, hi)

\* re.sub(r"\s+", " ", t): every run of whitespace becomes one space
RECURSIVE CollapseWs(_)
CollapseWs(t) ==
    IF t = <<>> THEN <<>>
    ELSE IF IsSpace(Head(t)) /\ Len(t) > 1 /\ IsSpace(t[2]) THEN CollapseWs(Tail(t))
    ELSE <<Head(t)>> \o CollapseWs(Tail(t))

clean_text(t) == CollapseWs(Strip(t))

E5One == 100000

\* cosine_sim: the dot product s clamped to [-1, 1]                    (E5)
cosine_sim(s) == Max(-E5One, Min(E5One, s))

\* get_encoder: the lazily built module global
get_encoder(cur) == IF cur = None THEN "SentenceTransformer" ELSE cur

----------------------------------------------------------------------------
(* Outcomes of a call: a returned value or a raised exception *)

Return(v) == [ok |-> TRUE, val |-> v]

Raise(msg) == [ok |-> FALSE, exc |-> msg]

\* dict.get(key, default)
Get(d, key, default) == IF key \in DOMAIN d THEN d[key] ELSE default

----------------------------------------------------------------------------
(* Labels *)

L_unknown == <<"u", "n", "k", "n", "o", "w", "n">>
L_noise == <<"n", "o", "i", "s", "e">>
L_Noise == <<"N", "o", "i", "s", "e">>
L_misc == <<"m", "i", "s", "c">>
L_miscon == <<"m", "i", "s", "c", "o", "n">>
L_error == <<"e", "r", "r", "o", "r">>
L_wrong == <<"w", "r", "o", "n", "g">>
L_confuse == <<"c", "o", "n", "f", "u", "s", "e">>
L_epsilon == <<"e", "p", "s", "i", "l", "o", "n">>
L_eps_sym == <<"U+03B5">>
L_eps_move == <<"U+03B5", "-", "m", "o", "v", "e">>
L_dfa == <<"d", "f", "a">>
L_DFA == <<"D", "F", "A">>
L_nfa == <<"n", "f", "a">>
L_regex == <<"r", "e", "g", "e", "x">>
L_star == <<"s", "t", "a", "r">>
L_union == <<"u", "n", "i", "o", "n">>
L_concat == <<"c", "o", "n", "c", "a", "t">>
L_equiv == <<"e", "q", "u", "i", "v">>
L_A == <<"A">>
L_B == <<"B">>
L_C == <<"C">>

\* the suffix of f"{label} (unseen@qid)"
UnseenMarker == <<" ", "(", "u", "n", "s", "e", "e", "n", "@", "q", "i", "d", ")">>

----------------------------------------------------------------------------
(* MisconceptionAnalyzer: src/models/analyzer.py *)

\* _load, classifier part: joblib.load when the file exists
LoadClf(art) == IF art.clf = "absent" THEN None ELSE art.clf

\* _load, labels part: the labels of each qid of the parquet rows <<qid, label>>
\* (sorted(set(..)) is only ever tested for membership: kept as a set)
LoadLabelRef(art) ==
    IF ~art.has_labels THEN <<>>
    ELSE [q \in {row[1] : row \in art.labels} |->
             {row[2] : row \in {x \in art.labels : x[1] = q}}]

\* _load, last line: self.loaded = True, whatever was found
LoadLoaded(art) == TRUE

\* similarity: embed both texts, cosine_sim, round(.., 4)           (E5 -> E4)
\* dot is the outcome of embedding the two texts: the dot product of the two
\* vectors (E5), or the exception the encoder raised
similarity(dot) ==
    IF ~dot.ok THEN dot
    ELSE Return(PyRound(cosine_sim(dot.val), 10))

\* the fallback with the risk of an unseen label
FallbackPrediction_Risk5 ==
    [label |-> L_unknown, confidence |-> 500, risk |-> 500,
     explanation |-> "No classifier artifact found."]

\* predict_label, the fallback without a classifier
FallbackPrediction ==
    [label |-> L_unknown, confidence |-> 500, risk |-> 400,
     explanation |-> "No classifier artifact found."]

RiskKeywords == {L_miscon, L_error, L_wrong, L_confuse, L_noise}

\* predict_label, the heuristic risk of a label and a confidence     (E4)
HeuristicRisk(label, conf) ==
    IF \E k \in RiskKeywords : Contains(k, Lower(label))
    THEN Max(4000, 10000 - conf + 4000)
    ELSE 2000

\* predict_label, the out-of-distribution test
IsUnseen(lr, qid, label) ==
    qid # NoQid /\ qid[1] \in DOMAIN lr /\ label \notin lr[qid[1]]

\* the relabelling without the floor on the risk
FlagUnseen_NoFloor(lr, qid, label, risk) ==
    IF IsUnseen(lr, qid, label)
    THEN [label |-> label \o UnseenMarker, risk |-> risk]
    ELSE [label |-> label, risk |-> risk]

\* predict_label, the out-of-distribution relabelling             (risk in E4)
FlagUnseen(lr, qid, label, risk) ==
    IF IsUnseen(lr, qid, label)
    THEN [label |-> label \o UnseenMarker, risk |-> Max(risk, 5000)]
    ELSE [label |-> label, risk |-> risk]

\* predict_label(user_answer, qid) of an analyzer with classifier c and label
\* reference lr.  o is what the artifacts do with this text:
\*   o.fail   "none", "embed" (encoder raises), "proba" (predict_proba raises,
\*            predict answers) or "predict" (both raise)
\*   o.label  the class chosen, o.conf its probability (E4)
\* A classifier of kind "hard" has no predict_proba: the call always raises.
predict_label(c, lr, user_answer, qid, o) ==
    LET text == clean_text(user_answer)
    IN  IF o.fail = "embed" THEN Raise("encoder failure")
        ELSE IF c = None THEN Return(FallbackPrediction)
        ELSE LET proba == c = "proba" /\ o.fail = "none"
             IN  IF ~proba /\ o.fail = "predict" THEN Raise("classifier failure")
                 ELSE LET label == o.label
                          conf == IF proba THEN o.conf ELSE 6000
                          f == FlagUnseen(lr, qid, label, HeuristicRisk(label, conf))
                      IN  Return([label |-> f.label,
                                  confidence |-> PyRound(conf, 10),
                                  risk |-> PyRound(f.risk, 10)])

Tip_open == "Start by restating the key term from the question in one line."
Tip_define == "Add a precise definition and one verifying example."
Tip_contrast == "Address the specific confusion noted in the label; contrast the two concepts explicitly."
Tip_close == "Finish with a short check: why your answer satisfies the definition or rule."

GuidanceKeywords ==
    {L_epsilon, L_eps_sym, L_dfa, L_nfa, L_regex, L_star, L_union, L_concat, L_equiv}

\* " ".join(tips)
RECURSIVE Join(_)
Join(tips) ==
    IF tips = <<>> THEN ""
    ELSE IF Len(tips) = 1 THEN tips[1]
    ELSE tips[1] \o " " \o Join(Tail(tips))

\* the second tip at similarity 0.65 too
NeedsDefinition_AtMost(sim_ui) == sim_ui <= 6500

\* suggest_guidance, the second tip
NeedsDefinition(sim_ui) == sim_ui < 6500

\* suggest_guidance, the third tip
NeedsContrast(mis_label) ==
    \E k \in GuidanceKeywords : Contains(k, Lower(mis_label))

\* suggest_guidance(question, ideal, user, mis_label); dot is the outcome of
\* embedding (user, ideal)
suggest_guidance(dot, mis_label) ==
    LET s == similarity(dot)
    IN  IF ~s.ok THEN s
        ELSE Return(Join(<<Tip_open>>
                         \o (IF NeedsDefinition(s.val) THEN <<Tip_define>> ELSE <<>>)
                         \o (IF NeedsContrast(mis_label) THEN <<Tip_contrast>> ELSE <<>>)
                         \o <<Tip_close>>))

----------------------------------------------------------------------------
(* DifficultyEstimator: models/difficulty.py, known by its interface only *)

\* n_items after loading: the number of items of the difficulty table
LoadItems(art) == art.items

\* estimate(question_text, qid): d is the estimator's outcome, a record
\* [difficulty_norm (E4), bucket] or the exception it raised
estimate(d, qid) ==
    IF ~d.ok THEN d
    ELSE Return([difficulty_norm |-> d.val.difficulty_norm,
                 bucket |-> d.val.bucket, qid |-> qid])

----------------------------------------------------------------------------
(* The service: src/backend/app.py *)

\* health()
health(is_loaded, items) ==
    [status |-> 200,
     body |-> [ok |-> TRUE, artifacts |-> is_loaded, difficulty_items |-> items]]

\* raise HTTPException(500, detail=f"{prefix}{e}")
Http500(prefix, e) == [status |-> 500, detail |-> prefix \o e]

\* pydantic's answer to a body that fails a Field constraint
Http422 == [status |-> 422, detail |-> "validation error"]

\* AnalyzeBody: Field(..., min_length=n) counts the characters of the raw str
AnalyzeBodyValid(b) ==
    /\ Len(b.question_text) >= 3
    /\ Len(b.ideal_answer_text) >= 3
    /\ Len(b.user_answer_text) >= 1

\* the special case taken for every label that contains "noise" or "misc"
MisRisk_Substring(mis_pred) ==
    LET raw == IF \E k \in {L_noise, L_misc} : Contains(k, Get(mis_pred, "label", None))
               THEN 1000 - Get(mis_pred, "confidence", 500)
               ELSE Get(mis_pred, "risk", 400)
    IN  Max(0, Min(1000, raw))

\* analyze_freeform, step 4: the risk used by the blend               (E3)
MisRisk(mis_pred) ==
    LET raw == IF Get(mis_pred, "label", None) \in {L_noise, L_misc}
               THEN 1000 - Get(mis_pred, "confidence", 500)
               ELSE Get(mis_pred, "risk", 400)
    IN  Max(0, Min(1000, raw))

\* analyze_freeform, step 4: round(0.65*sim + 0.35*(1 - mis_risk), 3)
\* sim in E4, mis_risk in E3; the blend in E6, the result in E3
AnswerScore(sim_ui, mis_risk) ==
    PyRound(65 * sim_ui + 350 * (1000 - mis_risk), 1000)

\* the pie without the floor of the gap at 0
Pie_NoFloor(sim_ui, mis_risk) ==
    << [name |-> "Matches Ideal", value |-> PyRound(sim_ui, 10)],
       [name |-> "Gaps vs Ideal", value |-> PyRound(10000 - sim_ui - 1500, 10)],
       [name |-> "Misconception Risk",
        value |-> PyRound(Min(4000, 10 * mis_risk), 10)] >>

\* analyze_freeform, step 6: the pie                       (values in E3)
Pie(sim_ui, mis_risk) ==
    << [name |-> "Matches Ideal", value |-> PyRound(sim_ui, 10)],
       [name |-> "Gaps vs Ideal",
        value |-> PyRound(Max(0, 10000 - sim_ui - 1500), 10)],
       [name |-> "Misconception Risk",
        value |-> PyRound(Min(4000, 10 * mis_risk), 10)] >>

\* analyze_freeform, step 6: the bars                      (values in E3)
Bars(sim_ui, sim_qi, diff) ==
    << [metric |-> "User vs Ideal", value |-> PyRound(sim_ui, 10)],
       [metric |-> "Question vs Ideal", value |-> PyRound(sim_qi, 10)],
       [metric |-> "Difficulty (0 easy-1 hard)", value |-> PyRound(diff.difficulty_norm, 10)] >>

\* analyze_freeform, the final payload
Payload(b, sim_ui, sim_qi, mis_pred, diff, answer_score, guidance, pie, bars) ==
    [status |-> 200,
     body |-> [question_text |-> b.question_text,
               ideal_answer_text |-> b.ideal_answer_text,
               user_answer_text |-> b.user_answer_text,
               similarity |-> [user_vs_ideal |-> PyRound(sim_ui, 10),
                               question_vs_ideal |-> PyRound(sim_qi, 10)],
               misconception |-> mis_pred,
               difficulty |-> diff,
               answer_score |-> answer_score,
               guidance |-> guidance,
               charts |-> [pie |-> pie, bars |-> bars]]]

----------------------------------------------------------------------------
(* State machine: startup *)

NoResp == [status |-> 0]

NoCall == [fn |-> None]

Idle == [h |-> "idle", pc |-> "idle"]

\* the module-level code of app.py has not run yet
Importing(arts, slots) ==
    /\ pc = "import"
    /\ artifacts \in arts
    /\ ENCODER = None
    /\ encoder = None
    /\ clf = None
    /\ loaded = FALSE
    /\ label_ref = <<>>
    /\ n_items = 0
    /\ reqs = [r \in slots |-> Idle]
    /\ ret = NoCall

\* encoder = get_encoder(..)
StartEncoder ==
    /\ pc = "import"
    /\ ENCODER' = get_encoder(ENCODER)
    /\ pc' = "encoder"
    /\ UNCHANGED <<artifacts, encoder, clf, loaded, label_ref, n_items, reqs, ret>>

\* mis_analyzer = MisconceptionAnalyzer(..): __init__ and the _load it calls
StartAnalyzer ==
    /\ pc = "encoder"
    /\ encoder' = ENCODER
    /\ clf' = LoadClf(artifacts)
    /\ label_ref' = LoadLabelRef(artifacts)
    /\ loaded' = LoadLoaded(artifacts)
    /\ pc' = "analyzer"
    /\ UNCHANGED <<artifacts, ENCODER, n_items, reqs, ret>>

\* diff_est = DifficultyEstimator(..)
StartDifficulty ==
    /\ pc = "analyzer"
    /\ n_items' = LoadItems(artifacts)
    /\ pc' = "serving"
    /\ UNCHANGED <<artifacts, ENCODER, encoder, clf, loaded, label_ref, reqs, ret>>

\* the state the startup code leaves, for a given artifact directory
Serving(arts, slots) ==
    /\ pc = "serving"
    /\ artifacts \in arts
    /\ ENCODER = get_encoder(None)
    /\ encoder = get_encoder(None)
    /\ clf = LoadClf(artifacts)
    /\ loaded = LoadLoaded(artifacts)
    /\ label_ref = LoadLabelRef(artifacts)
    /\ n_items = LoadItems(artifacts)
    /\ reqs = [r \in slots |-> Idle]
    /\ ret = NoCall

----------------------------------------------------------------------------
(* State machine: request handlers.  A handler reads the shared objects     *)
(* and writes its own request only.                                         *)

Set(r, rec) ==
    /\ reqs' = [reqs EXCEPT ![r] = rec]
    /\ UNCHANGED <<pc, artifacts, ENCODER, encoder, clf, loaded, label_ref, n_items, ret>>

\* a step of analyze_freeform ended: its locals, and where it goes next
Advance(r, step, locals, next) ==
    Set(r, [reqs[r] EXCEPT !.pc = next, !.loc = locals @@ reqs[r].loc,
                           !.steps = Append(reqs[r].steps, step)])

\* a failure answered with what had been computed so far
Fail_Partial(r, step, e) ==
    Set(r, [reqs[r] EXCEPT !.pc = "done", !.steps = Append(reqs[r].steps, step),
                           !.resp = [status |-> 200, body |-> reqs[r].loc]])

\* except Exception as e: raise HTTPException(500, detail=f"Analysis failed: {e}")
Fail(r, step, e) ==
    Set(r, [reqs[r] EXCEPT !.pc = "done", !.steps = Append(reqs[r].steps, step),
                           !.resp = Http500("Analysis failed: ", e)])

\* a health handler that recomputes the flag it reports
Health_Recheck(r) ==
    /\ pc = "serving" /\ reqs[r].pc = "idle"
    /\ loaded' = (clf # None)
    /\ reqs' = [reqs EXCEPT ![r] = [h |-> "health", pc |-> "done",
                                    resp |-> health(clf # None, n_items)]]
    /\ UNCHANGED <<pc, artifacts, ENCODER, encoder, clf, label_ref, n_items, ret>>

\* GET /health, the whole handler
Health(r) ==
    /\ pc = "serving" /\ reqs[r].pc = "idle"
    /\ Set(r, [h |-> "health", pc |-> "done", resp |-> health(loaded, n_items)])

\* POST /api/predict_misconception, the whole handler
PredictMisconception(r, users, qids, oracles) ==
    /\ pc = "serving" /\ reqs[r].pc = "idle"
    /\ \E u \in users, q \in qids, o \in oracles :
         LET b == [user_answer_text |-> u, qid |-> q]
             p == predict_label(clf, label_ref, u, q, o)
         IN  Set(r, [h |-> "predict_misconception", pc |-> "done", body |-> b,
                     resp |-> IF p.ok THEN [status |-> 200, body |-> p.val]
                              ELSE Http500("Misconception prediction failed: ", p.exc)])

\* POST /api/estimate_difficulty, the whole handler
EstimateDifficulty(r, questions, qids, diffs) ==
    /\ pc = "serving" /\ reqs[r].pc = "idle"
    /\ \E t \in questions, q \in qids, d \in diffs :
         LET b == [question_text |-> t, qid |-> q]
             e == estimate(d, q)
         IN  Set(r, [h |-> "estimate_difficulty", pc |-> "done", body |-> b,
                     resp |-> IF e.ok THEN [status |-> 200, body |-> e.val]
                              ELSE Http500("Difficulty estimation failed: ", e.exc)])

\* POST /api/analyze/freeform arrives
ReceiveAnalyze(r, bodies) ==
    /\ pc = "serving" /\ reqs[r].pc = "idle"
    /\ \E b \in bodies :
         Set(r, [h |-> "analyze_freeform", pc |-> "validate", body |-> b,
                 loc |-> [b |-> b], steps |-> <<>>, resp |-> NoResp])

\* the body is parsed into an AnalyzeBody before the handler is entered
Validate(r) ==
    /\ reqs[r].pc = "validate"
    /\ IF AnalyzeBodyValid(reqs[r].body)
       THEN Set(r, [reqs[r] EXCEPT !.pc = "sim_ui"])
       ELSE Set(r, [reqs[r] EXCEPT !.pc = "done", !.resp = Http422])

\* 1) sim_ui_vs_ideal = similarity(user, ideal)
StepSimUi(r, dots) ==
    /\ reqs[r].pc = "sim_ui"
    /\ \E dot \in dots :
         LET s == similarity(dot)
         IN  IF s.ok
             THEN Advance(r, "sim_ui", [sim_ui_vs_ideal |-> s.val, dot_ui |-> dot], "sim_qi")
             ELSE Fail(r, "sim_ui", s.exc)

\* 1) sim_qi = similarity(question, ideal)
StepSimQi(r, dots) ==
    /\ reqs[r].pc = "sim_qi"
    /\ \E dot \in dots :
         LET s == similarity(dot)
         IN  IF s.ok
             THEN Advance(r, "sim_qi", [sim_qi |-> s.val], "predict")
             ELSE Fail(r, "sim_qi", s.exc)

\* 2) mis_pred = predict_label(user, qid)
StepPredict(r, oracles) ==
    /\ reqs[r].pc = "predict"
    /\ \E o \in oracles :
         LET b == reqs[r].body
             p == predict_label(clf, label_ref, b.user_answer_text, b.qid, o)
         IN  IF p.ok
             THEN Advance(r, "predict", [mis_pred |-> p.val], "difficulty")
             ELSE Fail(r, "predict", p.exc)

\* 3) diff = diff_est.estimate(question, qid)
StepDifficulty(r, diffs) ==
    /\ reqs[r].pc = "difficulty"
    /\ \E d \in diffs :
         LET e == estimate(d, reqs[r].body.qid)
         IN  IF e.ok
             THEN Advance(r, "difficulty", [diff |-> e.val], "score")
             ELSE Fail(r, "difficulty", e.exc)

\* 4) mis_risk and answer_score
StepScore(r) ==
    /\ reqs[r].pc = "score"
    /\ LET l == reqs[r].loc
           mis_risk == MisRisk(l.mis_pred)
       IN  Advance(r, "score",
                   [mis_risk |-> mis_risk,
                    answer_score |-> AnswerScore(l.sim_ui_vs_ideal, mis_risk)],
                   "guidance")

\* 5) guidance = suggest_guidance(..): the encoder is asked again for
\* (user, ideal); it answers as in step 1, or raises (again is whether it may)
StepGuidance(r, again) ==
    /\ reqs[r].pc = "guidance"
    /\ \E dot \in {reqs[r].loc.dot_ui} \cup again :
         LET l == reqs[r].loc
             g == suggest_guidance(dot, Get(l.mis_pred, "label", L_noise))
         IN  IF g.ok
             THEN Advance(r, "guidance", [guidance |-> g.val], "charts")
             ELSE Fail(r, "guidance", g.exc)

\* 6) pie and bars, and the return of the final payload
StepCharts(r) ==
    /\ reqs[r].pc = "charts"
    /\ LET l == reqs[r].loc
           pie == Pie(l.sim_ui_vs_ideal, l.mis_risk)
           bars == Bars(l.sim_ui_vs_ideal, l.sim_qi, l.diff)
       IN  Set(r, [reqs[r] EXCEPT
                     !.pc = "done",
                     !.steps = Append(reqs[r].steps, "charts"),
                     !.loc = [pie |-> pie, bars |-> bars] @@ reqs[r].loc,
                     !.resp = Payload(l.b, l.sim_ui_vs_ideal, l.sim_qi, l.mis_pred,
                                      l.diff, l.answer_score, l.guidance, pie, bars)])

\* the response is sent; the worker takes the next request
Respond(r) ==
    /\ reqs[r].pc = "done"
    /\ Set(r, Idle)

----------------------------------------------------------------------------
(* Direct calls of the analyzer's methods *)

\* one call at a time: the caller makes it, then drops the result
Call(rec) ==
    /\ ret = NoCall
    /\ ret' = rec
    /\ UNCHANGED <<pc, artifacts, ENCODER, encoder, clf, loaded, label_ref, n_items, reqs>>

CallPredictLabel(users, qids, oracles) ==
    /\ pc = "serving"
    /\ \E u \in users, q \in qids, o \in oracles :
         Call([fn |-> "predict_label", user_answer |-> u, qid |-> q, o |-> o,
               out |-> predict_label(clf, label_ref, u, q, o)])

Drop ==
    /\ ret # NoCall
    /\ ret' = NoCall
    /\ UNCHANGED <<pc, artifacts, ENCODER, encoder, clf, loaded, label_ref, n_items, reqs>>

CallSuggestGuidance(dots, labels) ==
    /\ pc = "serving"
    /\ \E dot \in dots, l \in labels :
         Call([fn |-> "suggest_guidance", dot |-> dot, mis_label |-> l,
               out |-> suggest_guidance(dot, l)])

----------------------------------------------------------------------------
(* Inputs *)

MaxReq == 2        \* requests handled at the same time
MaxTextLen == 3    \* characters of a request text
DotGrid == 8       \* dot products sampled at -1 + 2k/DotGrid
ConfGrid == 7      \* class probabilities sampled at k/ConfGrid

Alphabet == {Space, "a"}

Texts(n) == UNION {[1..k -> Alphabet] : k \in 0..n}

EncoderError == Raise("encoder failure")

DifficultyError == Raise("difficulty failure")

\* artifact directories: the classifier file ("absent", or the kind of the
\* classifier it holds), whether the label file exists and its rows, and the
\* items of the difficulty table
Dir(c, rows, n) == [clf |-> c, has_labels |-> TRUE, labels |-> rows, items |-> n]

DirNoLabels(c, n) == [clf |-> c, has_labels |-> FALSE, labels |-> {}, items |-> n]

EmptyDir == DirNoLabels("absent", 0)

RowsAB == {<<1, L_A>>, <<1, L_B>>}

RowsNoise == {<<1, L_noise>>, <<2, L_A>>, <<2, L_misc>>}

FullDir == Dir("proba", RowsAB, 2)

AllDirs ==
    {Dir(c, rows, n) : c \in {"absent", "proba", "hard"}, rows \in {RowsAB, RowsNoise},
                       n \in {0, 2}}
    \cup {DirNoLabels(c, n) : c \in {"absent", "proba", "hard"}, n \in {0, 2}}

GridDots == {Return(((2 * k * E5One) \div DotGrid) - E5One) : k \in 0..DotGrid}

EdgeDots ==
    {Return(d) : d \in {-100001, 100001, 12340, 64994, 64995, 65000, 65005,
                        80000, 84996, 85000, 85004, 95000}}

GridConfs == {(k * 10000) \div ConfGrid : k \in 1..ConfGrid}

ClassLabels ==
    {L_noise, L_Noise, L_misc, L_miscon, L_error, L_wrong, L_confuse, L_A, L_B, L_C}

TopicLabels ==
    {L_epsilon, L_eps_sym, L_eps_move, L_dfa, L_DFA, L_nfa, L_regex, L_star,
     L_union, L_concat, L_equiv}

Body(q, i, u, qid) ==
    [question_text |-> q, ideal_answer_text |-> i, user_answer_text |-> u, qid |-> qid]

T_question == <<"a", Space, "a">>
T_ideal == <<"a", "a", "a">>
T_user == <<"a">>

Ok == [fail |-> "none", label |-> L_C, conf |-> 9000]

Medium == Return([difficulty_norm |-> 5000, bucket |-> "medium"])

----------------------------------------------------------------------------
(* Spec: startup, then MaxReq requests handled concurrently *)

SpecDirs == {EmptyDir, FullDir}

SpecBodies ==
    {Body(T_question, T_ideal, T_user, Qid(1)), Body(T_question, T_ideal, <<>>, NoQid)}

SpecOracles == {Ok, [fail |-> "predict", label |-> L_C, conf |-> 9000]}

Slots == 1..MaxReq

Init == Importing(SpecDirs, Slots)

Next ==
    \/ StartEncoder
    \/ StartAnalyzer
    \/ StartDifficulty
    \/ \E r \in Slots : Health(r)
    \/ \E r \in Slots : PredictMisconception(r, {T_user}, {Qid(1)}, SpecOracles)
    \/ \E r \in Slots : EstimateDifficulty(r, {T_question}, {NoQid}, {Medium, DifficultyError})
    \/ \E r \in Slots : ReceiveAnalyze(r, SpecBodies)
    \/ \E r \in Slots : Validate(r)
    \/ \E r \in Slots : StepSimUi(r, {Return(80000), EncoderError})
    \/ \E r \in Slots : StepSimQi(r, {Return(50000), EncoderError})
    \/ \E r \in Slots : StepPredict(r, SpecOracles)
    \/ \E r \in Slots : StepDifficulty(r, {Medium, DifficultyError})
    \/ \E r \in Slots : StepScore(r)
    \/ \E r \in Slots : StepGuidance(r, {EncoderError})
    \/ \E r \in Slots : StepCharts(r)
    \/ \E r \in Slots : Respond(r)

Spec == Init /\ [][Next]_vars

----------------------------------------------------------------------------
(* SpecPredict: predict_label called on a started analyzer *)

PredictOracles ==
    [fail : {"none", "embed", "proba", "predict"}, label : ClassLabels, conf : GridConfs]

InitPredict == Serving(AllDirs, {1})

NextPredict ==
    \/ CallPredictLabel({T_user, <<Space>>}, {NoQid, Qid(1), Qid(2), Qid(3)}, PredictOracles)
    \/ Drop

SpecPredict == InitPredict /\ [][NextPredict]_vars

----------------------------------------------------------------------------
(* SpecGuidance: suggest_guidance called on a started analyzer *)

GuidanceLabels ==
    LET ls == ClassLabels \cup TopicLabels \cup {L_unknown}
    IN  ls \cup {l \o UnseenMarker : l \in ls}

InitGuidance == Serving({FullDir}, {1})

NextGuidance ==
    \/ CallSuggestGuidance(GridDots \cup EdgeDots \cup {EncoderError}, GuidanceLabels)
    \/ Drop

SpecGuidance == InitGuidance /\ [][NextGuidance]_vars

----------------------------------------------------------------------------
(* SpecAnalyze: one analyze_freeform request at a time, over the numbers *)

AnalyzeDirs ==
    {EmptyDir, FullDir, Dir("hard", RowsNoise, 2)}

AnalyzeBodies ==
    {Body(T_question, T_ideal, T_user, q) : q \in {NoQid, Qid(1)}}

AnalyzeOracles ==
    [fail : {"none"}, label : {L_noise, L_Noise, L_misc, L_miscon, L_A, L_C},
     conf : GridConfs]

InitAnalyze == Serving(AnalyzeDirs, {1})

NextAnalyze ==
    \/ ReceiveAnalyze(1, AnalyzeBodies)
    \/ Validate(1)
    \/ StepSimUi(1, GridDots \cup EdgeDots)
    \/ StepSimQi(1, {Return(50000)})
    \/ StepPredict(1, AnalyzeOracles)
    \/ StepDifficulty(1, {Medium})
    \/ StepScore(1)
    \/ StepGuidance(1, {})
    \/ StepCharts(1)
    \/ Respond(1)

SpecAnalyze == InitAnalyze /\ [][NextAnalyze]_vars

----------------------------------------------------------------------------
(* SpecValidate: one analyze_freeform request at a time, over the texts *)

ValidateBodies ==
    {Body(q, i, u, NoQid) : q \in Texts(MaxTextLen), i \in Texts(MaxTextLen),
                            u \in Texts(MaxTextLen)}

InitValidate == Serving({EmptyDir}, {1})

NextValidate ==
    \/ ReceiveAnalyze(1, ValidateBodies)
    \/ Validate(1)
    \/ StepSimUi(1, {Return(80000)})
    \/ StepSimQi(1, {Return(50000)})
    \/ StepPredict(1, {Ok})
    \/ StepDifficulty(1, {Medium})
    \/ StepScore(1)
    \/ StepGuidance(1, {})
    \/ StepCharts(1)
    \/ Respond(1)

SpecValidate == InitValidate /\ [][NextValidate]_vars

----------------------------------------------------------------------------
(* Claims about predict_label, under SpecPredict *)

Predicted == ret.fn = "predict_label" /\ ret.out.ok

\* the call is for a qid that has a reference label set
HasReference == ret.qid # NoQid /\ ret.qid[1] \in DOMAIN label_ref

\* C1: without a classifier predict_label returns label "unknown", confidence
\* 0.5 and risk 0.4 for every text and every qid, a qid with a reference label
\* set included; the label never carries the unseen marker.
C1_FallbackWithoutClassifier ==
    (Predicted /\ clf = None) =>
        /\ ret.out.val.label = L_unknown
        /\ ret.out.val.confidence = 500
        /\ ret.out.val.risk = 400
        /\ ~EndsWith(ret.out.val.label, UnseenMarker)

\* no classifier, a qid whose reference label set lacks "unknown"
C1_Witness ==
    /\ Predicted /\ clf = None
    /\ HasReference /\ L_unknown \notin label_ref[ret.qid[1]]
    /\ ret.user_answer = <<Space>>

\* C2: every prediction returned has confidence in [0,1] and risk in [0,1].
C2_ConfidenceRiskInUnit ==
    Predicted =>
        /\ ret.out.val.confidence \in 0..1000
        /\ ret.out.val.risk \in 0..1000

\* C3: with a classifier, the label ends with the unseen marker and the risk
\* is at least 0.5 when a qid is given, a reference set exists for it and the
\* predicted label is not in that set; in every other case the label is
\* returned as predicted, without the marker.
C3_UnseenMarker ==
    (Predicted /\ clf # None) =>
        IF HasReference /\ ret.o.label \notin label_ref[ret.qid[1]]
        THEN /\ ret.out.val.label = ret.o.label \o UnseenMarker
             /\ EndsWith(ret.out.val.label, UnseenMarker)
             /\ ret.out.val.risk >= 500
        ELSE /\ ret.out.val.label = ret.o.label
             /\ ~EndsWith(ret.out.val.label, UnseenMarker)

\* an unseen label that no keyword matches: the risk 0.2 was raised to 0.5
C3_Witness ==
    /\ Predicted /\ clf # None
    /\ HasReference /\ ret.o.label = L_C
    /\ EndsWith(ret.out.val.label, UnseenMarker)
    /\ ret.out.val.risk = 500

----------------------------------------------------------------------------
(* Claims about analyze_freeform's numbers, under SpecAnalyze *)

Analyzed(r) ==
    /\ reqs[r].h = "analyze_freeform"
    /\ reqs[r].pc = "done"
    /\ reqs[r].resp.status = 200

\* C4 as claimed: answer_score = round(0.65*sim_ui + 0.35*(1 - mis_risk), 3),
\* mis_risk being 1 - confidence for the labels "noise" and "misc" exactly and
\* the risk field (0.4 if absent) otherwise, clamped to [0,1]; sim_ui = 0.8
\* and mis_risk = 0.2 give 0.92; a label with the unseen marker uses the risk
\* field.
C4_Original ==
    \A r \in DOMAIN reqs : Analyzed(r) =>
        LET sim == reqs[r].loc.sim_ui_vs_ideal
            p == reqs[r].resp.body.misconception
            risk == IF "risk" \in DOMAIN p THEN p.risk ELSE 400
            raw == IF p.label = L_noise \/ p.label = L_misc
                   THEN 1000 - p.confidence ELSE risk
            mr == Max(0, Min(1000, raw))
            score == reqs[r].resp.body.answer_score
        IN  /\ score = PyRound(65 * sim + 350 * (1000 - mr), 1000)
            /\ (sim = 8000 /\ mr = 200) => score = 920
            /\ EndsWith(p.label, UnseenMarker) => mr = Max(0, Min(1000, risk))

\* C4 (amended): the same formula; sim_ui = 0.8 and mis_risk = 0.2 give 0.8.
C4_AnswerScore ==
    \A r \in DOMAIN reqs : Analyzed(r) =>
        LET sim == reqs[r].loc.sim_ui_vs_ideal
            p == reqs[r].resp.body.misconception
            risk == IF "risk" \in DOMAIN p THEN p.risk ELSE 400
            raw == IF p.label = L_noise \/ p.label = L_misc
                   THEN 1000 - p.confidence ELSE risk
            mr == Max(0, Min(1000, raw))
            score == reqs[r].resp.body.answer_score
        IN  /\ score = PyRound(65 * sim + 350 * (1000 - mr), 1000)
            /\ (sim = 8000 /\ mr = 200) => score = 800
            /\ EndsWith(p.label, UnseenMarker) => mr = Max(0, Min(1000, risk))

\* "noise (unseen@qid)" at sim_ui = 0.8: the risk field is used
C4_Witness ==
    \E r \in DOMAIN reqs :
        /\ Analyzed(r)
        /\ reqs[r].loc.sim_ui_vs_ideal = 8000
        /\ reqs[r].resp.body.misconception.label = L_noise \o UnseenMarker
        /\ reqs[r].resp.body.misconception.risk # 1000 - reqs[r].resp.body.misconception.confidence

\* C10 as claimed: the slice "Gaps vs Ideal" equals max(0, 1 - sim_ui - 0.15)
\* and is never negative (0 at sim_ui = 0.95); the slice "Misconception Risk"
\* equals min(0.4, mis_risk) and never exceeds 0.4.
C10_Original ==
    \A r \in DOMAIN reqs : Analyzed(r) =>
        LET sim == reqs[r].loc.sim_ui_vs_ideal
            mr == reqs[r].loc.mis_risk
            pie == reqs[r].resp.body.charts.pie
        IN  /\ pie[2].name = "Gaps vs Ideal"
            /\ 10 * pie[2].value = Max(0, 10000 - sim - 1500)
            /\ pie[2].value >= 0
            /\ sim = 9500 => pie[2].value = 0
            /\ pie[3].name = "Misconception Risk"
            /\ pie[3].value = Min(400, mr)
            /\ pie[3].value <= 400

\* C10 (amended): the slice "Gaps vs Ideal" equals max(0, 1 - sim_ui - 0.15)
\* rounded to 3 decimals; the rest as claimed.
C10_Pie ==
    \A r \in DOMAIN reqs : Analyzed(r) =>
        LET sim == reqs[r].loc.sim_ui_vs_ideal
            mr == reqs[r].loc.mis_risk
            pie == reqs[r].resp.body.charts.pie
        IN  /\ pie[2].name = "Gaps vs Ideal"
            /\ pie[2].value = PyRound(Max(0, 10000 - sim - 1500), 10)
            /\ pie[2].value >= 0
            /\ sim = 9500 => pie[2].value = 0
            /\ pie[3].name = "Misconception Risk"
            /\ pie[3].value = Min(400, mr)
            /\ pie[3].value <= 400

\* sim_ui = 0.95, where 1 - sim_ui - 0.15 is negative, and a risk above 0.4
C10_Witness ==
    \E r \in DOMAIN reqs :
        /\ Analyzed(r)
        /\ reqs[r].loc.sim_ui_vs_ideal = 9500
        /\ reqs[r].loc.mis_risk > 400
        /\ reqs[r].resp.body.charts.pie[2].value = 0

\* C11: the answer_score of every successful analyze_freeform request lies
\* in [0,1], for every similarity in [-1,1] and every prediction.
C11_AnswerScoreInUnit ==
    \A r \in DOMAIN reqs : Analyzed(r) =>
        /\ reqs[r].loc.sim_ui_vs_ideal \in -10000..10000
        /\ reqs[r].resp.body.answer_score \in 0..1000

----------------------------------------------------------------------------
(* Claims about the service, under Spec *)

\* C5: started against an empty artifacts directory, GET /health reports
\* artifacts: false.
C5_HealthEmptyDir ==
    \A r \in DOMAIN reqs :
        (reqs[r].h = "health" /\ reqs[r].pc = "done" /\ artifacts = EmptyDir)
            => reqs[r].resp.body.artifacts = FALSE

AllSteps == <<"sim_ui", "sim_qi", "predict", "difficulty", "score", "guidance", "charts">>

ResultFields ==
    {"question_text", "ideal_answer_text", "user_answer_text", "similarity",
     "misconception", "difficulty", "answer_score", "guidance", "charts"}

\* the messages of the exceptions a step can raise
StepErrors(step) ==
    CASE step \in {"sim_ui", "sim_qi", "guidance"} -> {"encoder failure"}
      [] step = "predict" -> {"encoder failure", "classifier failure"}
      [] step = "difficulty" -> {"difficulty failure"}
      [] OTHER -> {}

\* C7: a request that passed validation ends either with a complete result,
\* all seven steps having run, or with a server error made of the status and
\* "Analysis failed: " followed by the message of the exception of the step
\* that failed, and nothing else; no step runs twice.
C7_AllOrNothing ==
    \A r \in DOMAIN reqs : reqs[r].h = "analyze_freeform" =>
        LET q == reqs[r]
        IN  /\ \A i, j \in 1..Len(q.steps) : i # j => q.steps[i] # q.steps[j]
            /\ q.pc # "done" => q.resp = NoResp
            /\ q.pc = "done" =>
                 \/ /\ q.resp.status = 422
                    /\ q.steps = <<>>
                 \/ /\ q.resp.status = 200
                    /\ q.steps = AllSteps
                    /\ DOMAIN q.resp.body = ResultFields
                    /\ DOMAIN q.resp.body.charts = {"pie", "bars"}
                    /\ Len(q.resp.body.charts.pie) = 3
                    /\ Len(q.resp.body.charts.bars) = 3
                 \/ /\ q.resp.status = 500
                    /\ DOMAIN q.resp = {"status", "detail"}
                    /\ \E k \in 1..Len(AllSteps) :
                         /\ q.steps = SubSeq(AllSteps, 1, k)
                         /\ q.resp.detail \in
                              {"Analysis failed: " \o m : m \in StepErrors(AllSteps[k])}

\* one request failed at the guidance step, after the score was computed,
\* while another one got its complete result
C7_Witness ==
    \E r1, r2 \in DOMAIN reqs :
        /\ reqs[r1].h = "analyze_freeform" /\ reqs[r1].pc = "done"
        /\ reqs[r1].resp.status = 500 /\ Len(reqs[r1].steps) = 6
        /\ "answer_score" \in DOMAIN reqs[r1].loc
        /\ Analyzed(r2)

\* C9: once the service is started, no step of any handler changes the
\* encoder, the classifier, the loaded flag or the label reference: they keep
\* the values the loading gave them; and a step changes one request only.
C9_SharedReadOnly ==
    /\ [](pc = "serving" =>
            /\ ENCODER = get_encoder(None)
            /\ encoder = ENCODER
            /\ clf = LoadClf(artifacts)
            /\ loaded = LoadLoaded(artifacts)
            /\ label_ref = LoadLabelRef(artifacts))
    /\ [][pc = "serving" =>
            /\ pc' = "serving"
            /\ <<ENCODER, encoder, clf, loaded, label_ref>>' =
                   <<ENCODER, encoder, clf, loaded, label_ref>>
            /\ \A r1, r2 \in DOMAIN reqs :
                   (reqs'[r1] # reqs[r1] /\ reqs'[r2] # reqs[r2]) => r1 = r2]_vars

\* two requests in the middle of their handlers at the same time
C9_Witness ==
    \E r1, r2 \in DOMAIN reqs :
        /\ reqs[r1].pc = "guidance"
        /\ reqs[r2].pc = "predict"
        /\ pc = "serving"

----------------------------------------------------------------------------
(* Claim about validation, under SpecValidate *)

\* C6: every request that reaches the analysis logic has a question, an ideal
\* answer and a user answer that are non-empty after trimming, and a request
\* that is not so is rejected before any step runs.
C6_NonEmptyAfterTrim ==
    \A r \in DOMAIN reqs : reqs[r].h = "analyze_freeform" =>
        LET b == reqs[r].body
            nonempty == /\ clean_text(b.question_text) # <<>>
                        /\ clean_text(b.ideal_answer_text) # <<>>
                        /\ clean_text(b.user_answer_text) # <<>>
        IN  /\ reqs[r].pc \in {"sim_ui", "sim_qi", "predict", "difficulty", "score",
                                "guidance", "charts"} => nonempty
            /\ (reqs[r].pc = "done" /\ ~nonempty) =>
                    (reqs[r].resp = Http422 /\ reqs[r].steps = <<>>)

----------------------------------------------------------------------------
(* Claim about suggest_guidance, under SpecGuidance *)

Guided == ret.fn = "suggest_guidance" /\ ret.out.ok

\* C8 as claimed: the opening tip; the definition tip iff similarity < 0.65;
\* the contrast tip iff the lower-cased label contains one of "epsilon", "dfa",
\* "nfa", "regex", "star", "union", "concat", "equiv"; the closing tip; joined
\* by single spaces in this order.
C8_Original ==
    Guided =>
        LET sim == similarity(ret.dot).val
            contrast == \E k \in {L_epsilon, L_dfa, L_nfa, L_regex, L_star, L_union,
                                   L_concat, L_equiv} : Contains(k, Lower(ret.mis_label))
        IN  ret.out.val =
                Tip_open
                \o (IF sim < 6500 THEN " " \o Tip_define ELSE "")
                \o (IF contrast THEN " " \o Tip_contrast ELSE "")
                \o " " \o Tip_close

\* C8 (amended): the same, the keywords of the contrast tip being the eight
\* words and the character U+03B5.
C8_Guidance ==
    Guided =>
        LET sim == similarity(ret.dot).val
            contrast == \E k \in {L_epsilon, L_dfa, L_nfa, L_regex, L_star, L_union,
                                   L_concat, L_equiv, <<"U+03B5">>} :
                            Contains(k, Lower(ret.mis_label))
        IN  ret.out.val =
                Tip_open
                \o (IF sim < 6500 THEN " " \o Tip_define ELSE "")
                \o (IF contrast THEN " " \o Tip_contrast ELSE "")
                \o " " \o Tip_close

\* similarity exactly 0.65 and an upper-case keyword: no definition tip, the
\* contrast tip
C8_Witness ==
    /\ Guided
    /\ similarity(ret.dot).val = 6500
    /\ ret.mis_label = L_DFA \o UnseenMarker
    /\ ret.out.val = Tip_open \o " " \o Tip_contrast \o " " \o Tip_close

====
